---- MODULE Spec2Model ----
(***************************************************************************)
(* Frenzy mode tick engine (FrenzyManager) of FrenzyFrontIO.               *)
(*                                                                         *)
(* Units of measure.  The code works on JavaScript doubles; the model      *)
(* works in fixed point.  Lengths are in sub-pixels (Scale per pixel, one  *)
(* tile = one pixel), time in quanta, health in hit points.  Every         *)
(* division and square root of the code is rounded towards zero to that    *)
(* grid.                                                                   *)
(***************************************************************************)
EXTENDS Integers, Sequences, FiniteSets, TLC

VARIABLES
    units,          \* FrenzyManager.units: the live unit list, in list order
    coreBuildings,  \* FrenzyManager.coreBuildings: Map in insertion order
    spatialGrid,    \* FrenzyManager.spatialGrid: [cellSize, entries]
    nextUnitId,     \* FrenzyManager.nextUnitId
    config,         \* FrenzyManager.config
    owner,          \* Game: tile -> owning player id (NoOwner if none)
    inSpawnPhase,   \* Game.inSpawnPhase()
    op,             \* the call that produced this state
    prevUnits,      \* units as they were when that call began
    prevBuildings,  \* coreBuildings as they were when that call began
    prevOwner,      \* owner as it was when that call began
    postCombat,     \* units as the combat step of the last tick left them
    combatLog,      \* attacks of the last tick, in execution order
    captureLog      \* player.conquer calls of the last tick, in order

vars == <<units, coreBuildings, spatialGrid, nextUnitId, config, owner,
          inSpawnPhase, op, prevUnits, prevBuildings, prevOwner,
          postCombat, combatLog, captureLog>>

----------------------------------------------------------------------------
(* Bounds of the model *)

Scale == 2
MapWidth == 4
MapHeight == 3
MaxUnitId == 4
TimerFloor == 2
MaxCalls == 5

Players == {"p1", "p2"}
PlayerSeq == <<"p1", "p2">>
NoOwner == "none"

DeltaTimes == {1, 2}

\* (Math.random() - 0.5) * 20 per axis lies in [-10, 10) pixels
JitterPairs == {<<0, 0>>, <<0 - Scale, Scale>>}

----------------------------------------------------------------------------
(* Arithmetic *)

Min(a, b) == IF a < b THEN a ELSE b
Max(a, b) == IF a > b THEN a ELSE b
Abs(a) == IF a < 0 THEN 0 - a ELSE a

\* a / b rounded towards zero
Quot(a, b) ==
    IF (a < 0) = (b < 0) THEN Abs(a) \div Abs(b) ELSE 0 - (Abs(a) \div Abs(b))

RECURSIVE ISqrtFrom(_, _)
ISqrtFrom(n, s) == IF (s + 1) * (s + 1) > n THEN s ELSE ISqrtFrom(n, s + 1)

\* Math.sqrt / Math.hypot, rounded down
ISqrt(n) == ISqrtFrom(n, 0)
Hypot(dx, dy) == ISqrt(dx * dx + dy * dy)
DistSq(ax, ay, bx, by) == (ax - bx) * (ax - bx) + (ay - by) * (ay - by)

RECURSIVE SeqSum(_)
SeqSum(s) == IF s = <<>> THEN 0 ELSE Head(s) + SeqSum(Tail(s))

----------------------------------------------------------------------------
(* The Game collaborator: tile map, ownership, neighbours *)

Tiles == 0 .. (MapWidth * MapHeight - 1)
TileX(t) == t % MapWidth
TileY(t) == t \div MapWidth
Ref(x, y) == y * MapWidth + x
IsValidCoord(x, y) == x >= 0 /\ x < MapWidth /\ y >= 0 /\ y < MapHeight
WaterTiles == {Ref(2, 0)}
\* a map on which no tile counts as water
IsWaterNever(t) == FALSE

IsWater(t) == t \in WaterTiles

Neighbors(t) ==
    (IF TileY(t) > 0 THEN <<t - MapWidth>> ELSE <<>>)
    \o (IF TileY(t) < MapHeight - 1 THEN <<t + MapWidth>> ELSE <<>>)
    \o (IF TileX(t) > 0 THEN <<t - 1>> ELSE <<>>)
    \o (IF TileX(t) < MapWidth - 1 THEN <<t + 1>> ELSE <<>>)

NeighborSet(t) ==
    (IF TileY(t) > 0 THEN {t - MapWidth} ELSE {})
    \cup (IF TileY(t) < MapHeight - 1 THEN {t + MapWidth} ELSE {})
    \cup (IF TileX(t) > 0 THEN {t - 1} ELSE {})
    \cup (IF TileX(t) < MapWidth - 1 THEN {t + 1} ELSE {})

TileSeq == [i \in 1 .. MapWidth * MapHeight |-> i - 1]

\* player.tiles(), in enumeration order
TilesOf(own, p) == SelectSeq(TileSeq, LAMBDA t : own[t] = p)

\* player.conquer(tile)
Conquer(own, p, t) == [own EXCEPT ![t] = p]

----------------------------------------------------------------------------
(* SpatialHashGrid *)

KEY_MULTIPLIER == 100000

CellOf(cellSize, v) == v \div cellSize
GetKey(cellSize, x, y) ==
    CellOf(cellSize, x) * KEY_MULTIPLIER + CellOf(cellSize, y)

EmptyGrid(cellSize) == [cellSize |-> cellSize, entries |-> <<>>]

GridClear(g) == [g EXCEPT !.entries = <<>>]

\* insert(entity): the entity is bucketed by the cell of its position now
GridInsert(g, e) ==
    [g EXCEPT !.entries = Append(@,
        [id |-> e.id, playerId |-> e.playerId, x |-> e.x, y |-> e.y,
         key |-> GetKey(g.cellSize, e.x, e.y)])]

RECURSIVE CellKeys(_, _, _, _, _)
CellKeys(cx, cy, cyMin, cxMax, cyMax) ==
    IF cx > cxMax THEN <<>>
    ELSE IF cy > cyMax THEN CellKeys(cx + 1, cyMin, cyMin, cxMax, cyMax)
    ELSE <<cx * KEY_MULTIPLIER + cy>>
         \o CellKeys(cx, cy + 1, cyMin, cxMax, cyMax)

\* a query that scans only the cell of the query point
QueryKeysCentre(cellSize, x, y, r) ==
    <<CellOf(cellSize, x) * KEY_MULTIPLIER + CellOf(cellSize, y)>>

\* keys of the cells whose box meets the square around the query circle
QueryKeys(cellSize, x, y, r) ==
    CellKeys(CellOf(cellSize, x - r), CellOf(cellSize, y - r),
             CellOf(cellSize, y - r),
             CellOf(cellSize, x + r), CellOf(cellSize, y + r))

RECURSIVE BucketsOf(_, _)
BucketsOf(g, keys) ==
    IF keys = <<>> THEN <<>>
    ELSE SelectSeq(g.entries, LAMBDA e : e.key = Head(keys))
         \o BucketsOf(g, Tail(keys))

\* getNearby(x, y, radius): the entries of every scanned cell
GetNearbyEntries(g, x, y, r) == BucketsOf(g, QueryKeys(g.cellSize, x, y, r))

----------------------------------------------------------------------------
(* FrenzyManager: configuration, structures, spawning *)

\* an absent property of a Partial<FrenzyConfig>
Undefined == 0 - 1

\* the configuration the manager is constructed with:
\* { ...DEFAULT_FRENZY_CONFIG, ...config }
BaseConfig ==
    [spawnInterval |-> 2, maxUnitsPerPlayer |-> 2, startingUnits |-> 1,
     unitHealth |-> 2, unitSpeed |-> 1, unitDPS |-> 1,
     combatRange |-> 2 * Scale, separationRadius |-> Scale,
     captureRadius |-> Scale, radialAlignmentWeight |-> 750,
     borderAdvanceDistance |-> Scale \div 2, stopDistance |-> Scale]

InitConfigs ==
    {[BaseConfig EXCEPT !.startingUnits = 1, !.maxUnitsPerPlayer = 2],
     [BaseConfig EXCEPT !.startingUnits = 2, !.maxUnitsPerPlayer = 1]}

\* Partial<FrenzyConfig> arguments of updateConfig
Overrides ==
    ([spawnInterval : {Undefined, 1}, maxUnitsPerPlayer : {Undefined, 1}]
        \ {[spawnInterval |-> Undefined, maxUnitsPerPlayer |-> Undefined]})
    \cup {[spawnInterval |-> Undefined, maxUnitsPerPlayer |-> 2]}

MergeConfig(cfg, ov) ==
    [cfg EXCEPT
        !.spawnInterval =
            IF ov.spawnInterval = Undefined THEN @ ELSE ov.spawnInterval,
        !.maxUnitsPerPlayer =
            IF ov.maxUnitsPerPlayer = Undefined THEN @
            ELSE ov.maxUnitsPerPlayer]

\* coreBuildings.has(playerId)
HasBuilding(cb, p) == \E i \in 1 .. Len(cb) : cb[i].playerId = p

\* index of the entry of coreBuildings.get(playerId)
BuildingIndex(cb, p) == CHOOSE i \in 1 .. Len(cb) : cb[i].playerId = p

\* getUnitCount(playerId)
GetUnitCount(us, p) == Len(SelectSeq(us, LAMBDA u : u.playerId = p))

\* spawnUnit(playerId, x, y); m.rnd is the stream of Math.random() pairs
\* spawnUnit taking the id from the length of the unit list
SpawnUnitLenId(m, cfg, p, x, y) ==
    IF ~HasBuilding(m.coreBuildings, p) THEN m
    ELSE LET off == Head(m.rnd)
             unit == [id |-> Len(m.units) + 1, playerId |-> p,
                      x |-> x + off[1], y |-> y + off[2],
                      vx |-> 0, vy |-> 0, health |-> cfg.unitHealth,
                      targetX |-> x, targetY |-> y]
             i == BuildingIndex(m.coreBuildings, p)
         IN  [m EXCEPT !.units = Append(@, unit),
                       !.nextUnitId = @ + 1,
                       !.rnd = Tail(@),
                       !.coreBuildings[i].unitCount = @ + 1]

SpawnUnit(m, cfg, p, x, y) ==
    IF ~HasBuilding(m.coreBuildings, p) THEN m
    ELSE LET off == Head(m.rnd)
             unit == [id |-> m.nextUnitId, playerId |-> p,
                      x |-> x + off[1], y |-> y + off[2],
                      vx |-> 0, vy |-> 0, health |-> cfg.unitHealth,
                      targetX |-> x, targetY |-> y]
             i == BuildingIndex(m.coreBuildings, p)
         IN  [m EXCEPT !.units = Append(@, unit),
                       !.nextUnitId = @ + 1,
                       !.rnd = Tail(@),
                       !.coreBuildings[i].unitCount = @ + 1]

RECURSIVE SpawnInitialUnits(_, _, _, _, _, _)
SpawnInitialUnits(m, cfg, p, x, y, i) ==
    IF i >= cfg.startingUnits THEN m
    ELSE SpawnInitialUnits(SpawnUnit(m, cfg, p, x, y), cfg, p, x, y, i + 1)

\* coreBuildings.set(playerId, {...}) and the initial units, at (sx, sy)
CreateHQ(m, cfg, p, sx, sy) ==
    SpawnInitialUnits(
        [m EXCEPT !.coreBuildings = Append(@,
            [playerId |-> p, x |-> sx, y |-> sy,
             spawnTimer |-> cfg.spawnInterval,
             spawnInterval |-> cfg.spawnInterval,
             unitCount |-> 0])],
        cfg, p, sx, sy, 0)

\* onPlayerSpawn without the test for an existing structure
OnPlayerSpawnAgain(m, cfg, own, p) ==
    IF Len(TilesOf(own, p)) = 0 THEN m
    ELSE CreateHQ(m, cfg, p, TileX(TilesOf(own, p)[1]) * Scale,
                  TileY(TilesOf(own, p)[1]) * Scale)

\* onPlayerSpawn(playerId)
OnPlayerSpawnOp(m, cfg, own, p) ==
    IF HasBuilding(m.coreBuildings, p) THEN m
    ELSE IF Len(TilesOf(own, p)) = 0 THEN m
    ELSE CreateHQ(m, cfg, p, TileX(TilesOf(own, p)[1]) * Scale,
                  TileY(TilesOf(own, p)[1]) * Scale)

\* the cap loop keeping one unit too few: nextCount < max instead of <=
RECURSIVE EnforceLoopStrict(_, _, _, _, _)
EnforceLoopStrict(us, cb, cfg, counts, kept) ==
    IF us = <<>> THEN [units |-> kept, coreBuildings |-> cb]
    ELSE LET unit == Head(us)
             nextCount == counts[unit.playerId] + 1
         IN  IF nextCount < cfg.maxUnitsPerPlayer
             THEN EnforceLoopStrict(Tail(us), cb, cfg,
                      [counts EXCEPT ![unit.playerId] = nextCount],
                      Append(kept, unit))
             ELSE EnforceLoopStrict(Tail(us),
                      IF HasBuilding(cb, unit.playerId)
                      THEN [cb EXCEPT
                              ![BuildingIndex(cb, unit.playerId)].unitCount =
                                  Max(@ - 1, 0)]
                      ELSE cb,
                      cfg, counts, kept)

\* the cap loop walking the list from its end: the newest units are kept
RECURSIVE EnforceLoopNewest(_, _, _, _, _)
EnforceLoopNewest(us, cb, cfg, counts, kept) ==
    IF us = <<>> THEN [units |-> kept, coreBuildings |-> cb]
    ELSE LET unit == us[Len(us)]
             nextCount == counts[unit.playerId] + 1
         IN  IF nextCount <= cfg.maxUnitsPerPlayer
             THEN EnforceLoopNewest(SubSeq(us, 1, Len(us) - 1), cb, cfg,
                      [counts EXCEPT ![unit.playerId] = nextCount],
                      <<unit>> \o kept)
             ELSE EnforceLoopNewest(SubSeq(us, 1, Len(us) - 1),
                      IF HasBuilding(cb, unit.playerId)
                      THEN [cb EXCEPT
                              ![BuildingIndex(cb, unit.playerId)].unitCount =
                                  Max(@ - 1, 0)]
                      ELSE cb,
                      cfg, counts, kept)

RECURSIVE EnforceLoop(_, _, _, _, _)
EnforceLoop(us, cb, cfg, counts, kept) ==
    IF us = <<>> THEN [units |-> kept, coreBuildings |-> cb]
    ELSE LET unit == Head(us)
             nextCount == counts[unit.playerId] + 1
         IN  IF nextCount <= cfg.maxUnitsPerPlayer
             THEN EnforceLoop(Tail(us), cb, cfg,
                      [counts EXCEPT ![unit.playerId] = nextCount],
                      Append(kept, unit))
             ELSE EnforceLoop(Tail(us),
                      IF HasBuilding(cb, unit.playerId)
                      THEN [cb EXCEPT
                              ![BuildingIndex(cb, unit.playerId)].unitCount =
                                  Max(@ - 1, 0)]
                      ELSE cb,
                      cfg, counts, kept)

\* enforceUnitCaps()
EnforceUnitCaps(us, cb, cfg) ==
    EnforceLoop(us, cb, cfg, [p \in Players |-> 0], <<>>)

\* the timer loop of updateConfig without Math.min
ClampTimersKeep(cb, cfg) ==
    [i \in 1 .. Len(cb) |-> [cb[i] EXCEPT !.spawnInterval = cfg.spawnInterval]]

\* the timer loop of updateConfig
ClampTimers(cb, cfg) ==
    [i \in 1 .. Len(cb) |->
        [cb[i] EXCEPT !.spawnInterval = cfg.spawnInterval,
                      !.spawnTimer = Min(@, cfg.spawnInterval)]]

\* updateConfig once this.config is merged to cfg1
ApplyConfig(us, cb1, cfg1, ov) ==
    IF ov.maxUnitsPerPlayer # Undefined
    THEN [config |-> cfg1] @@ EnforceUnitCaps(us, cb1, cfg1)
    ELSE [config |-> cfg1, units |-> us, coreBuildings |-> cb1]

\* updateConfig(overrides)
UpdateConfigOp(us, cb, cfg, ov) ==
    ApplyConfig(us, ClampTimers(cb, MergeConfig(cfg, ov)),
                MergeConfig(cfg, ov), ov)

----------------------------------------------------------------------------
(* FrenzyManager: spawn timers *)

\* the timer loop resetting an elapsed timer also when the player is at
\* the cap
RECURSIVE SpawnTimersLoopReset(_, _, _, _)
SpawnTimersLoopReset(m, cfg, dt, i) ==
    IF i > Len(m.coreBuildings) THEN m
    ELSE LET b == m.coreBuildings[i]
             timer == b.spawnTimer - dt
             m1 == [m EXCEPT !.coreBuildings[i].spawnTimer =
                                IF timer <= 0 THEN b.spawnInterval ELSE timer]
         IN  IF timer <= 0 /\ b.unitCount < cfg.maxUnitsPerPlayer
             THEN SpawnTimersLoopReset(
                      SpawnUnit(m1, cfg, b.playerId, b.x, b.y), cfg, dt, i + 1)
             ELSE SpawnTimersLoopReset(m1, cfg, dt, i + 1)

RECURSIVE SpawnTimersLoop(_, _, _, _)
SpawnTimersLoop(m, cfg, dt, i) ==
    IF i > Len(m.coreBuildings) THEN m
    ELSE LET b == m.coreBuildings[i]
             timer == b.spawnTimer - dt
             m1 == [m EXCEPT !.coreBuildings[i].spawnTimer = timer]
         IN  IF timer <= 0 /\ b.unitCount < cfg.maxUnitsPerPlayer
             THEN LET m2 == SpawnUnit(m1, cfg, b.playerId, b.x, b.y)
                  IN  SpawnTimersLoop(
                          [m2 EXCEPT !.coreBuildings[i].spawnTimer =
                                         b.spawnInterval],
                          cfg, dt, i + 1)
             ELSE SpawnTimersLoop(m1, cfg, dt, i + 1)

\* timers that never advance
UpdateSpawnTimersIdle(m, cfg, dt) == m

\* updateSpawnTimers(deltaTime)
UpdateSpawnTimers(m, cfg, dt) == SpawnTimersLoop(m, cfg, dt, 1)

----------------------------------------------------------------------------
(* FrenzyManager: the objects the spatial grid hands out *)

IsLive(us, id) == \E i \in 1 .. Len(us) : us[i].id = id
IndexOfId(us, id) == CHOOSE i \in 1 .. Len(us) : us[i].id = id

\* The grid stores references: an entry of a unit that is still in the list
\* reads that unit's current position, an entry of a unit that was removed
\* from the list reads the position the unit was left with.
ObjOf(us, e) ==
    IF IsLive(us, e.id)
    THEN LET u == us[IndexOfId(us, e.id)]
         IN  [id |-> u.id, playerId |-> u.playerId, x |-> u.x, y |-> u.y,
              live |-> TRUE]
    ELSE [id |-> e.id, playerId |-> e.playerId, x |-> e.x, y |-> e.y,
          live |-> FALSE]

\* spatialGrid.getNearby(x, y, radius) as seen by the manager
GetNearby(g, us, x, y, r) ==
    LET es == GetNearbyEntries(g, x, y, r)
    IN  [i \in 1 .. Len(es) |-> ObjOf(us, es[i])]

----------------------------------------------------------------------------
(* FrenzyManager: movement and targeting *)

NoTile == 0 - 1

MapW == MapWidth * Scale
MapH == MapHeight * Scale
Clamp(lo, hi, v) == Max(lo, Min(hi, v))

\* x || 1
OrOne(len) == IF len = 0 THEN Scale ELSE len

\* tiles.filter(tile => neighbors(tile).some(n => owner(n) !== player))
BorderTiles(own, p) ==
    SelectSeq(TilesOf(own, p),
              LAMBDA t : \E n \in NeighborSet(t) : own[n] # p)

Centroid(tiles) ==
    [x |-> SeqSum([i \in 1 .. Len(tiles) |-> TileX(tiles[i]) * Scale])
              \div Len(tiles),
     y |-> SeqSum([i \in 1 .. Len(tiles) |-> TileY(tiles[i]) * Scale])
              \div Len(tiles)]

\* dist / alignmentBoost of one candidate tile, in thousandths
Score(cfg, unit, c, n) ==
    LET ux == unit.x - c.x
        uy == unit.y - c.y
        uLen == OrOne(Hypot(ux, uy))
        nx == TileX(n) * Scale
        ny == TileY(n) * Scale
        vx == nx - c.x
        vy == ny - c.y
        vLen == OrOne(Hypot(vx, vy))
        alignment == Quot((vx * ux + vy * uy) * 1000, vLen * uLen)
        dist == Hypot(nx - unit.x, ny - unit.y)
        alignmentBoost ==
            Max(100, 1000 + Quot(cfg.radialAlignmentWeight * alignment, 1000))
    IN  Quot(dist * 1000000, alignmentBoost)

\* candidate tiles in the order the two nested loops visit them
RECURSIVE Candidates(_, _, _)
Candidates(own, p, border) ==
    IF border = <<>> THEN <<>>
    ELSE SelectSeq(Neighbors(Head(border)),
                   LAMBDA n : own[n] # p /\ ~IsWater(n))
         \o Candidates(own, p, Tail(border))

RECURSIVE BestOf(_, _, _, _, _, _)
BestOf(cfg, unit, c, cands, bestTile, bestScore) ==
    IF cands = <<>> THEN bestTile
    ELSE LET score == Score(cfg, unit, c, Head(cands))
         IN  IF bestTile = NoTile \/ score < bestScore
             THEN BestOf(cfg, unit, c, Tail(cands), Head(cands), score)
             ELSE BestOf(cfg, unit, c, Tail(cands), bestTile, bestScore)

MapCentre == [x |-> MapW \div 2, y |-> MapH \div 2]

\* base pushed borderAdvanceDistance beyond the border, away from the centroid
Advance(cfg, bx, by, dirX, dirY, dirLen) ==
    [x |-> Clamp(0, MapW,
                 bx + Quot(dirX * cfg.borderAdvanceDistance, dirLen)),
     y |-> Clamp(0, MapH,
                 by + Quot(dirY * cfg.borderAdvanceDistance, dirLen))]

\* the target for the chosen tile at (bx, by), c the centroid
TargetFromBase(cfg, c, bx, by) ==
    IF cfg.borderAdvanceDistance > 0
    THEN Advance(cfg, bx, by, bx - c.x, by - c.y,
                 OrOne(Hypot(bx - c.x, by - c.y)))
    ELSE [x |-> bx, y |-> by]

\* the target falling back to the map's origin when no tile was chosen
TargetFromBestOrigin(cfg, c, bestTile) ==
    IF bestTile # NoTile
    THEN TargetFromBase(cfg, c, TileX(bestTile) * Scale,
                        TileY(bestTile) * Scale)
    ELSE [x |-> 0, y |-> 0]

\* the target once bestTile is known
TargetFromBest(cfg, c, bestTile) ==
    IF bestTile # NoTile
    THEN TargetFromBase(cfg, c, TileX(bestTile) * Scale,
                        TileY(bestTile) * Scale)
    ELSE MapCentre

\* the target of a unit whose owner has border tiles; c is the centroid
TargetAtBorder(cfg, own, unit, border, c) ==
    TargetFromBest(cfg, c,
        BestOf(cfg, unit, c, Candidates(own, unit.playerId, border),
               NoTile, 0))

\* targetPos of updateUnits for a unit whose owner holds tiles
TargetPos(cfg, own, unit) ==
    IF Len(BorderTiles(own, unit.playerId)) > 0
    THEN TargetAtBorder(cfg, own, unit, BorderTiles(own, unit.playerId),
                        Centroid(TilesOf(own, unit.playerId)))
    ELSE MapCentre

RECURSIVE SepLoop(_, _, _, _)
SepLoop(cfg, unit, nearby, acc) ==
    IF nearby = <<>> THEN acc
    ELSE LET other == Head(nearby)
             dx == unit.x - other.x
             dy == unit.y - other.y
             dsq == dx * dx + dy * dy
         IN  IF other.id # unit.id /\ other.playerId = unit.playerId
                /\ dsq > 0
                /\ dsq < cfg.separationRadius * cfg.separationRadius
             THEN SepLoop(cfg, unit, Tail(nearby),
                      [sepX |-> acc.sepX + Quot(dx * 1000, ISqrt(dsq)),
                       sepY |-> acc.sepY + Quot(dy * 1000, ISqrt(dsq)),
                       count |-> acc.count + 1])
             ELSE SepLoop(cfg, unit, Tail(nearby), acc)

\* the blend of the separation vector into the velocity;
\* separationStrength is 0.6
Blend(cfg, unit, acc) ==
    IF acc.count > 0
    THEN [unit EXCEPT
            !.vx = @ + Quot(Quot(acc.sepX, acc.count) * cfg.unitSpeed * 6,
                            10000),
            !.vy = @ + Quot(Quot(acc.sepY, acc.count) * cfg.unitSpeed * 6,
                            10000)]
    ELSE unit

\* applySeparation(unit)
ApplySeparation(cfg, g, us, unit) ==
    Blend(cfg, unit,
          SepLoop(cfg, unit,
                  GetNearby(g, us, unit.x, unit.y, cfg.separationRadius),
                  [sepX |-> 0, sepY |-> 0, count |-> 0]))

\* position update and clamp to the map
Integrate(unit, dt) ==
    [unit EXCEPT !.x = Clamp(0, MapW, unit.x + unit.vx * dt),
                 !.y = Clamp(0, MapH, unit.y + unit.vy * dt)]

\* the unit heads for its target at unitSpeed; dist is the distance to it
Steer(cfg, g, us, unit, dt, dx, dy, dist) ==
    Integrate(ApplySeparation(cfg, g, us,
                  [unit EXCEPT !.vx = Quot(dx * cfg.unitSpeed, dist),
                               !.vy = Quot(dy * cfg.unitSpeed, dist)]),
              dt)

\* the move of a unit whose target is (dx, dy) away
Approach(cfg, g, us, unit, dt, dx, dy) ==
    IF dx * dx + dy * dy > Max(0, cfg.stopDistance) * Max(0, cfg.stopDistance)
    THEN Steer(cfg, g, us, unit, dt, dx, dy, ISqrt(dx * dx + dy * dy))
    ELSE [unit EXCEPT !.vx = 0, !.vy = 0]

\* the move of a unit towards targetPos
MoveTowards(cfg, g, us, unit, dt, targetPos) ==
    Approach(cfg, g, us, unit, dt, targetPos.x - unit.x, targetPos.y - unit.y)

\* the body of the loop of updateUnits for one unit
MoveUnit(cfg, own, g, us, unit, dt) ==
    IF Len(TilesOf(own, unit.playerId)) = 0 THEN unit
    ELSE MoveTowards(cfg, g, us, unit, dt, TargetPos(cfg, own, unit))

RECURSIVE UpdateUnitsLoop(_, _, _, _, _, _)
UpdateUnitsLoop(cfg, own, g, us, dt, i) ==
    IF i > Len(us) THEN us
    ELSE UpdateUnitsLoop(cfg, own, g,
             [us EXCEPT ![i] = MoveUnit(cfg, own, g, us, us[i], dt)],
             dt, i + 1)

\* updateUnits(deltaTime)
UpdateUnits(cfg, own, g, us, dt) == UpdateUnitsLoop(cfg, own, g, us, dt, 1)

----------------------------------------------------------------------------
(* FrenzyManager: combat *)

\* enemies.reduce(...): the first of the nearest enemies
\* the reduce with <= in place of <: the last of several nearest wins
RECURSIVE NearestOfLast(_, _, _)
NearestOfLast(unit, enemies, closest) ==
    IF enemies = <<>> THEN closest
    ELSE LET enemy == Head(enemies)
         IN  NearestOfLast(unit, Tail(enemies),
                 IF DistSq(enemy.x, enemy.y, unit.x, unit.y)
                        <= DistSq(closest.x, closest.y, unit.x, unit.y)
                 THEN enemy ELSE closest)

RECURSIVE NearestOf(_, _, _)
NearestOf(unit, enemies, closest) ==
    IF enemies = <<>> THEN closest
    ELSE LET enemy == Head(enemies)
         IN  NearestOf(unit, Tail(enemies),
                 IF DistSq(enemy.x, enemy.y, unit.x, unit.y)
                        < DistSq(closest.x, closest.y, unit.x, unit.y)
                 THEN enemy ELSE closest)

\* the damage with the sign of the subtraction turned
DamageHeals(cfg, us, dt, nearest) ==
    IF nearest.live
    THEN [us EXCEPT ![IndexOfId(us, nearest.id)].health =
                        @ + cfg.unitDPS * dt]
    ELSE us

\* the damage withheld from a target whose health is already <= 0
DamageWhileAlive(cfg, us, dt, nearest) ==
    IF nearest.live /\ us[IndexOfId(us, nearest.id)].health > 0
    THEN [us EXCEPT ![IndexOfId(us, nearest.id)].health =
                        @ - cfg.unitDPS * dt]
    ELSE us

\* nearest.health -= unitDPS * deltaTime; a unit that left the list is
\* still an object of the grid, and the damage goes to that object
Damage(cfg, us, dt, nearest) ==
    IF nearest.live
    THEN [us EXCEPT ![IndexOfId(us, nearest.id)].health =
                        @ - cfg.unitDPS * dt]
    ELSE us

AttackEvent(cfg, unit, dt, nearest) ==
    [attacker |-> unit.id, attackerOwner |-> unit.playerId,
     attackerHealth |-> unit.health,
     target |-> nearest.id, targetOwner |-> nearest.playerId,
     targetLive |-> nearest.live,
     distSq |-> DistSq(nearest.x, nearest.y, unit.x, unit.y),
     damage |-> cfg.unitDPS * dt]

\* enemies of a unit among the objects the grid returns
EnemiesOf(cfg, g, us, unit) ==
    SelectSeq(GetNearby(g, us, unit.x, unit.y, cfg.combatRange),
              LAMBDA u : u.playerId # unit.playerId)

RECURSIVE CombatLoop(_, _, _, _, _, _)
\* the attack of unit i on nearest
Attack(cfg, g, us, dt, i, log, nearest) ==
    CombatLoop(cfg, g, Damage(cfg, us, dt, nearest), dt, i + 1,
               Append(log, AttackEvent(cfg, us[i], dt, nearest)))

\* the body of the loop of updateCombat for unit i
Engage(cfg, g, us, dt, i, log, enemies) ==
    IF Len(enemies) > 0
    THEN Attack(cfg, g, us, dt, i, log, NearestOf(us[i], enemies, enemies[1]))
    ELSE CombatLoop(cfg, g, us, dt, i + 1, log)

CombatLoop(cfg, g, us, dt, i, log) ==
    IF i > Len(us) THEN [units |-> us, log |-> log]
    ELSE Engage(cfg, g, us, dt, i, log, EnemiesOf(cfg, g, us, us[i]))

\* updateCombat(deltaTime)
UpdateCombat(cfg, g, us, dt) == CombatLoop(cfg, g, us, dt, 1, <<>>)

----------------------------------------------------------------------------
(* FrenzyManager: territory capture *)

\* Math.max(1, Math.floor(config.captureRadius))
CaptureRadius(cfg) == Max(1, cfg.captureRadius \div Scale)

\* the capture condition without the neighbour test
BordersAnything(own, p, t) == TRUE

\* the capture condition met by a neighbour owned by any player
BordersAnyOwned(own, p, t) == \E n \in NeighborSet(t) : own[n] \in Players

\* neighbors.some(n => owner(n) === unit.playerId)
BordersOurTerritory(own, p, t) == \E n \in NeighborSet(t) : own[n] = p

\* the two nested loops over dx and dy for one unit
RECURSIVE CaptureScan(_, _, _, _, _, _)
CaptureScan(unit, r, dx, dy, own, log) ==
    IF dx > r THEN [owner |-> own, log |-> log]
    ELSE IF dy > r THEN CaptureScan(unit, r, dx + 1, 0 - r, own, log)
    ELSE LET tileX == (unit.x \div Scale) + dx
             tileY == (unit.y \div Scale) + dy
             tile == Ref(tileX, tileY)
         IN  IF IsValidCoord(tileX, tileY)
                /\ ~IsWater(tile)
                /\ own[tile] # unit.playerId
                /\ BordersOurTerritory(own, unit.playerId, tile)
             THEN CaptureScan(unit, r, dx, dy + 1,
                      Conquer(own, unit.playerId, tile),
                      Append(log,
                          [unit |-> unit.id, playerId |-> unit.playerId,
                           health |-> unit.health, tile |-> tile,
                           from |-> own[tile],
                           ownedNeighbors |->
                               {n \in NeighborSet(tile) :
                                   own[n] = unit.playerId}]))
             ELSE CaptureScan(unit, r, dx, dy + 1, own, log)

\* the capture loop with dx starting at 0 instead of -captureRadius
RECURSIVE CaptureLoopHalf(_, _, _, _, _)
CaptureLoopHalf(cfg, us, i, own, log) ==
    IF i > Len(us) THEN [owner |-> own, log |-> log]
    ELSE LET r == CaptureRadius(cfg)
             res == CaptureScan(us[i], r, 0, 0 - r, own, log)
         IN  CaptureLoopHalf(cfg, us, i + 1, res.owner, res.log)

RECURSIVE CaptureLoop(_, _, _, _, _)
CaptureLoop(cfg, us, i, own, log) ==
    IF i > Len(us) THEN [owner |-> own, log |-> log]
    ELSE LET r == CaptureRadius(cfg)
             res == CaptureScan(us[i], r, 0 - r, 0 - r, own, log)
         IN  CaptureLoop(cfg, us, i + 1, res.owner, res.log)

\* captureTerritory()
CaptureTerritory(cfg, us, own) == CaptureLoop(cfg, us, 1, own, <<>>)

----------------------------------------------------------------------------
(* FrenzyManager: cleanup and spatial index rebuild *)

IsDead(u) == u.health <= 0
\* the survivor filter with the comparison off by one
IsAliveAtZero(u) == u.health >= 0

IsAlive(u) == u.health > 0

\* the cleanup without the unitCount bookkeeping
DecrementNone(dead, cb) == cb

RECURSIVE DecrementDead(_, _)
DecrementDead(dead, cb) ==
    IF dead = <<>> THEN cb
    ELSE DecrementDead(Tail(dead),
             IF HasBuilding(cb, Head(dead).playerId)
             THEN [cb EXCEPT
                     ![BuildingIndex(cb, Head(dead).playerId)].unitCount =
                         @ - 1]
             ELSE cb)

\* removeDeadUnits()
RemoveDeadUnits(us, cb) ==
    [units |-> SelectSeq(us, IsAlive),
     coreBuildings |-> DecrementDead(SelectSeq(us, IsDead), cb)]

RECURSIVE InsertAll(_, _, _)
InsertAll(g, us, i) ==
    IF i > Len(us) THEN g ELSE InsertAll(GridInsert(g, us[i]), us, i + 1)

\* the rebuild without clear()
RebuildNoClear(g, us) == InsertAll(g, us, 1)

\* rebuildSpatialGrid()
RebuildSpatialGrid(g, us) == InsertAll(GridClear(g), us, 1)

----------------------------------------------------------------------------
(* FrenzyManager: tick *)

\* the loop over game.players() at the head of tick
\* the loop over the players leaving after the first new structure
RECURSIVE CheckPlayersOnce(_, _, _, _)
CheckPlayersOnce(m, cfg, own, i) ==
    IF i > Len(PlayerSeq) THEN m
    ELSE LET p == PlayerSeq[i]
         IN  IF Len(TilesOf(own, p)) > 0 /\ ~HasBuilding(m.coreBuildings, p)
             THEN OnPlayerSpawnOp(m, cfg, own, p)
             ELSE CheckPlayersOnce(m, cfg, own, i + 1)

RECURSIVE CheckPlayers(_, _, _, _)
CheckPlayers(m, cfg, own, i) ==
    IF i > Len(PlayerSeq) THEN m
    ELSE LET p == PlayerSeq[i]
         IN  IF Len(TilesOf(own, p)) > 0 /\ ~HasBuilding(m.coreBuildings, p)
             THEN CheckPlayers(OnPlayerSpawnOp(m, cfg, own, p), cfg, own,
                               i + 1)
             ELSE CheckPlayers(m, cfg, own, i + 1)

\* the part of tick that creates structures and units
SpawnStage(m, cfg, own, dt) ==
    UpdateSpawnTimers(CheckPlayers(m, cfg, own, 1), cfg, dt)

\* the result of a tick: m1 after spawning, us2 after movement, cmb after
\* combat, cap after capture, rem after cleanup
TickResult(m1, us2, cmb, cap, rem, g) ==
    [units |-> rem.units,
     coreBuildings |-> rem.coreBuildings,
     nextUnitId |-> m1.nextUnitId,
     owner |-> cap.owner,
     spatialGrid |-> RebuildSpatialGrid(g, rem.units),
     combatLog |-> cmb.log,
     captureLog |-> cap.log,
     fought |-> cmb.units]

\* captureTerritory(); removeDeadUnits(); rebuildSpatialGrid()
AfterCombat(m1, us2, cmb, cfg, own, g) ==
    TickResult(m1, us2, cmb,
               CaptureTerritory(cfg, cmb.units, own),
               RemoveDeadUnits(cmb.units, m1.coreBuildings), g)

\* updateCombat(deltaTime) and the rest of the tick
AfterMove(m1, us2, cfg, own, g, dt) ==
    AfterCombat(m1, us2, UpdateCombat(cfg, g, us2, dt), cfg, own, g)

\* updateUnits(deltaTime) and the rest of the tick
AfterSpawn(m1, cfg, own, g, dt) ==
    AfterMove(m1, UpdateUnits(cfg, own, g, m1.units, dt), cfg, own, g, dt)

\* tick(deltaTime) outside the spawn phase
ActiveTick(m, cfg, own, g, dt) ==
    AfterSpawn(SpawnStage(m, cfg, own, dt), cfg, own, g, dt)

\* tick without the test of the spawn phase
TickAlways(m, cfg, own, g, dt, phase) == ActiveTick(m, cfg, own, g, dt)

\* tick(deltaTime); phase is game.inSpawnPhase()
TickOp(m, cfg, own, g, dt, phase) ==
    IF phase
    THEN [units |-> m.units, coreBuildings |-> m.coreBuildings,
          nextUnitId |-> m.nextUnitId, owner |-> own, spatialGrid |-> g,
          combatLog |-> <<>>, captureLog |-> <<>>, fought |-> <<>>]
    ELSE ActiveTick(m, cfg, own, g, dt)

----------------------------------------------------------------------------
(* Initial states and the calls made on the manager *)

\* the cell size the constructor passes to SpatialHashGrid
CELL_SIZE == 50

NoOverrides == [spawnInterval |-> Undefined, maxUnitsPerPlayer |-> Undefined]

\* the call that produced a state, and how many calls were made so far
OpRec(name, p, dt, ov, n) ==
    [name |-> name, player |-> p, dt |-> dt, ov |-> ov, n |-> n]

\* territory the base game has handed out when the manager is constructed
Layout(t1, t2) ==
    [t \in Tiles |-> IF t \in t1 THEN "p1" ELSE IF t \in t2 THEN "p2"
                     ELSE NoOwner]

InitOwners ==
    {Layout({Ref(0, 1)}, {Ref(1, 1)}),
     Layout({Ref(1, 1), Ref(1, 2)}, {})}

Init ==
    /\ units = <<>>
    /\ coreBuildings = <<>>
    /\ spatialGrid = EmptyGrid(CELL_SIZE)
    /\ nextUnitId = 1
    /\ config \in InitConfigs
    /\ owner \in InitOwners
    /\ inSpawnPhase = TRUE
    /\ op = OpRec("new", NoOwner, 0, NoOverrides, 0)
    /\ prevUnits = <<>>
    /\ prevBuildings = <<>>
    /\ prevOwner = owner
    /\ postCombat = <<>>
    /\ combatLog = <<>>
    /\ captureLog = <<>>

Manager(rnd) ==
    [units |-> units, coreBuildings |-> coreBuildings,
     nextUnitId |-> nextUnitId, rnd |-> rnd]

\* a stream of Math.random() results long enough for any one call
ZeroRnd == [i \in 1 .. (MaxUnitId + 1) * (Len(PlayerSeq) + 1) |-> <<0, 0>>]

Remember ==
    /\ prevUnits' = units
    /\ prevBuildings' = coreBuildings
    /\ prevOwner' = owner

\* the budget of calls of one behaviour
MayCall == op.n < MaxCalls

\* the base game ends its spawn phase
EndSpawnPhase ==
    /\ MayCall
    /\ inSpawnPhase
    /\ inSpawnPhase' = FALSE
    /\ op' = OpRec("endSpawnPhase", NoOwner, 0, NoOverrides, op.n + 1)
    /\ Remember
    /\ postCombat' = <<>> /\ combatLog' = <<>> /\ captureLog' = <<>>
    /\ UNCHANGED <<units, coreBuildings, spatialGrid, nextUnitId, config,
                   owner>>

OnPlayerSpawn(p) ==
    /\ MayCall
    /\ \E n \in {OnPlayerSpawnOp(Manager(ZeroRnd), config, owner, p).nextUnitId
                  - nextUnitId} :
        /\ nextUnitId + n <= MaxUnitId + 1
        /\ \E rnd \in [1 .. n -> JitterPairs] :
           \E m \in {OnPlayerSpawnOp(Manager(rnd), config, owner, p)} :
              /\ units' = m.units
              /\ coreBuildings' = m.coreBuildings
              /\ nextUnitId' = m.nextUnitId
        /\ op' = OpRec("onPlayerSpawn", p, 0, NoOverrides, op.n + 1)
        /\ Remember
        /\ postCombat' = <<>> /\ combatLog' = <<>> /\ captureLog' = <<>>
        /\ UNCHANGED <<spatialGrid, config, owner, inSpawnPhase>>

UpdateConfig(ov) ==
    /\ MayCall
    /\ \E res \in {UpdateConfigOp(units, coreBuildings, config, ov)} :
        /\ config' = res.config
        /\ units' = res.units
        /\ coreBuildings' = res.coreBuildings
        /\ op' = OpRec("updateConfig", NoOwner, 0, ov, op.n + 1)
        /\ Remember
        /\ postCombat' = <<>> /\ combatLog' = <<>> /\ captureLog' = <<>>
        /\ UNCHANGED <<spatialGrid, nextUnitId, owner, inSpawnPhase>>

TimersAbove(cb, floor) == \A i \in 1 .. Len(cb) : cb[i].spawnTimer >= floor

\* tick(deltaTime) as call number n
TickStep(dt, n) ==
    /\ \E k \in {TickOp(Manager(ZeroRnd), config, owner, spatialGrid, dt,
                        inSpawnPhase).nextUnitId - nextUnitId} :
          /\ nextUnitId + k <= MaxUnitId + 1
          /\ \E rnd \in [1 .. k -> JitterPairs] :
             \E res \in {TickOp(Manager(rnd), config, owner, spatialGrid,
                                dt, inSpawnPhase)} :
                /\ TimersAbove(res.coreBuildings, 0 - TimerFloor)
                /\ units' = res.units
                /\ coreBuildings' = res.coreBuildings
                /\ nextUnitId' = res.nextUnitId
                /\ owner' = res.owner
                /\ spatialGrid' = res.spatialGrid
                /\ postCombat' = res.fought
                /\ combatLog' = res.combatLog
                /\ captureLog' = res.captureLog
    /\ op' = OpRec("tick", NoOwner, dt, NoOverrides, n)
    /\ Remember
    /\ UNCHANGED <<config, inSpawnPhase>>

Tick(dt) ==
    /\ MayCall
    /\ TickStep(dt, op.n + 1)

Next ==
    \/ EndSpawnPhase
    \/ \E p \in Players : OnPlayerSpawn(p)
    \/ \E ov \in Overrides : UpdateConfig(ov)
    \/ \E dt \in DeltaTimes : Tick(dt)

Spec == Init /\ [][Next]_vars

----------------------------------------------------------------------------
(* Properties *)

AfterActiveTick == op.name = "tick" /\ ~inSpawnPhase
AfterDormantTick == op.name = "tick" /\ inSpawnPhase
AfterUpdateConfig == op.name = "updateConfig"

UnitSet(us) == {us[i] : i \in 1 .. Len(us)}
UnitIds(us) == {us[i].id : i \in 1 .. Len(us)}
LogSet(log) == {log[i] : i \in 1 .. Len(log)}

\* C1 (as the specification states it): once a tick outside the spawn phase
\* or an updateConfig call has returned, no player has more units than
\* config.maxUnitsPerPlayer, whatever startingUnits, maxUnitsPerPlayer and
\* spawnInterval are.  onPlayerSpawn creates startingUnits units without
\* looking at the cap, and only updateConfig with maxUnitsPerPlayer trims.
C1_UnitCapHolds ==
    (AfterActiveTick \/ AfterUpdateConfig) =>
        \A p \in Players : GetUnitCount(units, p) <= config.maxUnitsPerPlayer

\* C2: every tile conquered by the capture step had, at the moment it was
\* conquered, a neighbour owned by the capturing player; and a player none of
\* whose units stands on a capture patch touching that player's territory
\* conquers nothing in that tick.
Patch(cfg, u) ==
    {t \in Tiles :
        /\ Abs(TileX(t) - (u.x \div Scale)) <= CaptureRadius(cfg)
        /\ Abs(TileY(t) - (u.y \div Scale)) <= CaptureRadius(cfg)}

Isolated(cfg, own, u) ==
    \A t \in Patch(cfg, u) : \A n \in NeighborSet(t) : own[n] # u.playerId

C2_CaptureNeedsOwnedNeighbour ==
    AfterActiveTick =>
        /\ \A e \in LogSet(captureLog) :
              /\ e.ownedNeighbors # {}
              /\ e.ownedNeighbors \subseteq NeighborSet(e.tile)
              /\ owner[e.tile] \in Players
        /\ \A p \in Players :
              (\A u \in UnitSet(postCombat) :
                  u.playerId = p => Isolated(config, prevOwner, u))
              => \A e \in LogSet(captureLog) : e.playerId # p

C2_Witness ==
    /\ AfterActiveTick
    /\ captureLog # <<>>
    /\ \E u \in UnitSet(postCombat) : Isolated(config, prevOwner, u)

\* C3: after a tick outside the spawn phase no unit with health <= 0 is
\* left in the unit list.
C3_NoDeadUnitAfterTick ==
    AfterActiveTick => \A u \in UnitSet(units) : u.health > 0

C3_Witness ==
    /\ AfterActiveTick
    /\ \E u \in UnitSet(postCombat) :
          u.health <= 0 /\ u.id \notin UnitIds(units)

\* C4 (as the specification states it): a unit whose health has reached
\* zero or below during a tick deals no damage and conquers no tile in the
\* rest of that tick.  updateCombat and captureTerritory walk the whole unit
\* list and never look at the health of the acting unit.
C4_DeadUnitsStayIdle ==
    AfterActiveTick =>
        /\ \A e \in LogSet(combatLog) : e.attackerHealth > 0
        /\ \A e \in LogSet(captureLog) : e.health > 0

\* C5: updateConfig with maxUnitsPerPlayer = c leaves every player who had n
\* units with exactly min(n, c) units, and that player's core building
\* counts min(n, c) units.
C5_TrimToCap ==
    (AfterUpdateConfig /\ op.ov.maxUnitsPerPlayer # Undefined) =>
        \A p \in Players :
            /\ GetUnitCount(units, p) =
                  Min(GetUnitCount(prevUnits, p), op.ov.maxUnitsPerPlayer)
            /\ HasBuilding(prevBuildings, p) =>
                  /\ HasBuilding(coreBuildings, p)
                  /\ coreBuildings[BuildingIndex(coreBuildings, p)].unitCount
                        = Min(GetUnitCount(prevUnits, p),
                              op.ov.maxUnitsPerPlayer)

C5_Witness ==
    /\ AfterUpdateConfig
    /\ op.ov.maxUnitsPerPlayer # Undefined
    /\ \E p \in Players :
          /\ GetUnitCount(prevUnits, p) > op.ov.maxUnitsPerPlayer
          /\ GetUnitCount(units, p) = op.ov.maxUnitsPerPlayer
          /\ coreBuildings[BuildingIndex(coreBuildings, p)].unitCount
                = op.ov.maxUnitsPerPlayer

\* C6: onPlayerSpawn is idempotent per player: a call for a player who owns
\* tiles leaves that player with exactly one core building, a call for a
\* player who already has one changes neither the buildings nor the units,
\* no player ever has two core buildings, and no core building ever moves.
BuildingsOf(cb, p) == {i \in 1 .. Len(cb) : cb[i].playerId = p}

C6_SpawnIdempotent ==
    /\ \A p \in Players : Cardinality(BuildingsOf(coreBuildings, p)) <= 1
    /\ \A i \in 1 .. Len(prevBuildings) :
          /\ i <= Len(coreBuildings)
          /\ coreBuildings[i].playerId = prevBuildings[i].playerId
          /\ coreBuildings[i].x = prevBuildings[i].x
          /\ coreBuildings[i].y = prevBuildings[i].y
    /\ op.name = "onPlayerSpawn" =>
          /\ Len(TilesOf(owner, op.player)) > 0 =>
                Cardinality(BuildingsOf(coreBuildings, op.player)) = 1
          /\ HasBuilding(prevBuildings, op.player) =>
                coreBuildings = prevBuildings /\ units = prevUnits

C6_Witness ==
    /\ op.name = "onPlayerSpawn"
    /\ HasBuilding(prevBuildings, op.player)
    /\ Len(TilesOf(owner, op.player)) > 0
    /\ units # <<>>

\* C7: a tick made while the game is in its spawn phase changes nothing:
\* units, core buildings and their timers, the unit id counter, tile
\* ownership, the configuration and the spatial grid all stay as they were.
C7_DormantTickChangesNothing ==
    [][(inSpawnPhase /\ op'.name = "tick" /\ op'.n = op.n + 1) =>
          UNCHANGED <<units, coreBuildings, spatialGrid, nextUnitId, owner,
                      config, inSpawnPhase>>]_vars

C7_Witness ==
    /\ AfterDormantTick
    /\ units # <<>>
    /\ \E p \in Players : Len(TilesOf(owner, p)) > 0
                          /\ ~HasBuilding(coreBuildings, p)

\* C8 (as the specification states it, in the case of its example: the two
\* units are the only units): two live units of opposing owners that are
\* within combat range of each other, each the nearest hostile of the other,
\* both lose exactly unitDPS * dt of health in one tick, whether or not an
\* earlier tick has run since they were placed.
HealthIn(us, id) == us[IndexOfId(us, id)].health

InRange(cfg, a, b) ==
    DistSq(a.x, a.y, b.x, b.y) <= cfg.combatRange * cfg.combatRange

C8_MutualEngagement ==
    (AfterActiveTick /\ Len(prevUnits) = 2 /\ Len(postCombat) = 2) =>
        \A a \in UnitSet(prevUnits), b \in UnitSet(prevUnits) :
            (/\ a.playerId # b.playerId
             /\ a.health > 0 /\ b.health > 0
             /\ InRange(config, a, b)
             /\ InRange(config, postCombat[IndexOfId(postCombat, a.id)],
                        postCombat[IndexOfId(postCombat, b.id)]))
            => /\ HealthIn(postCombat, a.id)
                     = a.health - config.unitDPS * op.dt
               /\ HealthIn(postCombat, b.id)
                     = b.health - config.unitDPS * op.dt

\* C9 (as the specification states it): after a tick outside the spawn
\* phase, every in-bounds tile that is not water, was not owned by a unit's
\* owner, lies within Chebyshev distance captureRadius of the unit's tile and
\* borders the owner's territory as it was before the tick, is owned by the
\* unit's owner.
InReach(cfg, u, t) ==
    Max(Abs(TileX(t) - (u.x \div Scale)), Abs(TileY(t) - (u.y \div Scale)))
        * Scale <= cfg.captureRadius

Capturable(cfg, own, u, t) ==
    /\ ~IsWater(t)
    /\ own[t] # u.playerId
    /\ InReach(cfg, u, t)
    /\ \E n \in NeighborSet(t) : own[n] = u.playerId

C9_ReachCaptured ==
    AfterActiveTick =>
        \A u \in UnitSet(units) : \A t \in Tiles :
            Capturable(config, prevOwner, u, t) => owner[t] = u.playerId

\* C9 (amended): the same, for the tile the unit stands on when the tick
\* ends, provided every tile conquered in that tick was conquered by the
\* unit's owner.
OnlyCapturer(p) == \A e \in LogSet(captureLog) : e.playerId = p

C9_ReachCapturedUncontested ==
    AfterActiveTick =>
        \A u \in UnitSet(units) : \A t \in Tiles :
            (OnlyCapturer(u.playerId) /\ Capturable(config, prevOwner, u, t))
            => owner[t] = u.playerId

C9_Witness ==
    /\ AfterActiveTick
    /\ \E u \in UnitSet(units) : \E t \in Tiles :
          /\ OnlyCapturer(u.playerId)
          /\ Capturable(config, prevOwner, u, t)
          /\ \E e \in LogSet(captureLog) : e.tile = t /\ e.unit = u.id
          /\ TileX(t) < u.x \div Scale

----------------------------------------------------------------------------
(* SpatialHashGrid on its own: any entities, any cell size, any query *)

GridSpan == 2
MaxGridEntries == 2
MaxRadius == 3

GridCoords == (0 - GridSpan) .. GridSpan
GridCellSizes == {2, 3, CELL_SIZE}
GridEntities ==
    [id : 1 .. MaxGridEntries, playerId : {"p1"}, x : GridCoords,
     y : GridCoords]

GridInit ==
    /\ spatialGrid \in {EmptyGrid(c) : c \in GridCellSizes}
    /\ units = <<>>
    /\ coreBuildings = <<>>
    /\ nextUnitId = 1
    /\ config = BaseConfig
    /\ owner = Layout({}, {})
    /\ inSpawnPhase = TRUE
    /\ op = OpRec("new", NoOwner, 0, NoOverrides, 0)
    /\ prevUnits = <<>>
    /\ prevBuildings = <<>>
    /\ prevOwner = owner
    /\ postCombat = <<>>
    /\ combatLog = <<>>
    /\ captureLog = <<>>

GridFrame ==
    UNCHANGED <<units, coreBuildings, nextUnitId, config, owner,
                inSpawnPhase, prevUnits, prevBuildings, prevOwner,
                postCombat, combatLog, captureLog>>

\* insert(entity)
InsertEntity(e) ==
    /\ Len(spatialGrid.entries) < MaxGridEntries
    /\ e.id = Len(spatialGrid.entries) + 1
    /\ spatialGrid' = GridInsert(spatialGrid, e)
    /\ op' = OpRec("insert", NoOwner, 0, NoOverrides, 0)
    /\ GridFrame

\* clear()
ClearGrid ==
    /\ spatialGrid.entries # <<>>
    /\ spatialGrid' = GridClear(spatialGrid)
    /\ op' = OpRec("clear", NoOwner, 0, NoOverrides, 0)
    /\ GridFrame

GridNext ==
    \/ \E e \in GridEntities : InsertEntity(e)
    \/ ClearGrid

GridSpec == GridInit /\ [][GridNext]_vars

Returned(g, x, y, r) ==
    {GetNearbyEntries(g, x, y, r)[i].id :
        i \in 1 .. Len(GetNearbyEntries(g, x, y, r))}

\* C10: for every set of inserted entities and every query (x, y, r),
\* getNearby returns every inserted entity whose distance from (x, y) is at
\* most r; it may return more.
C10_NearbyIsSuperset ==
    \A x \in GridCoords, y \in GridCoords, r \in 0 .. MaxRadius :
        \A e \in LogSet(spatialGrid.entries) :
            DistSq(e.x, e.y, x, y) <= r * r
            => e.id \in Returned(spatialGrid, x, y, r)

C10_Witness ==
    /\ op.name = "insert"
    /\ \E x \in GridCoords, y \in GridCoords, r \in 1 .. MaxRadius :
          /\ \E e \in LogSet(spatialGrid.entries) :
                /\ DistSq(e.x, e.y, x, y) <= r * r
                /\ e.key # GetKey(spatialGrid.cellSize, x, y)
                /\ e.id \in Returned(spatialGrid, x, y, r)
          /\ \E e \in LogSet(spatialGrid.entries) :
                e.id \notin Returned(spatialGrid, x, y, r)

----------------------------------------------------------------------------
(* Properties of health, timers and identity *)

\* C11: the health of a unit never increases from one call to the next:
\* every attack subtracts a non-negative amount, and health may go below
\* zero.
C11_HealthNeverIncreases ==
    /\ \A e \in LogSet(combatLog) : e.damage >= 0
    /\ \A u \in UnitSet(postCombat) :
          u.id \in UnitIds(prevUnits) => u.health <= HealthIn(prevUnits, u.id)
    /\ \A u \in UnitSet(units) :
          u.id \in UnitIds(prevUnits) => u.health <= HealthIn(prevUnits, u.id)

C11_Witness ==
    /\ AfterActiveTick
    /\ \E u \in UnitSet(postCombat) :
          /\ u.id \in UnitIds(prevUnits)
          /\ u.health < 0
          /\ HealthIn(prevUnits, u.id) > 0

\* C12: every core building has spawnTimer <= spawnInterval and
\* spawnInterval = config.spawnInterval after every call; updateConfig
\* lowers a larger timer to the new interval and leaves a smaller one as it
\* was.
C12_TimerWithinInterval ==
    /\ \A i \in 1 .. Len(coreBuildings) :
          /\ coreBuildings[i].spawnTimer <= coreBuildings[i].spawnInterval
          /\ coreBuildings[i].spawnInterval = config.spawnInterval
    /\ AfterUpdateConfig =>
          /\ Len(coreBuildings) = Len(prevBuildings)
          /\ \A i \in 1 .. Len(prevBuildings) :
                coreBuildings[i].spawnTimer =
                    Min(prevBuildings[i].spawnTimer, config.spawnInterval)

C12_Witness ==
    /\ AfterUpdateConfig
    /\ \E i \in 1 .. Len(prevBuildings) :
          /\ prevBuildings[i].spawnTimer > config.spawnInterval
          /\ coreBuildings[i].spawnTimer = config.spawnInterval

\* C13: unit ids are unique and strictly increasing in creation order: a
\* unit created by a call gets an id that no earlier unit had, also when
\* earlier units have died or were trimmed, and the owner of a unit never
\* changes.
IdsIncrease(us) ==
    \A i \in 1 .. Len(us), j \in 1 .. Len(us) : i < j => us[i].id < us[j].id

C13_IdsNeverReused ==
    [][/\ nextUnitId' >= nextUnitId
       /\ IdsIncrease(units')
       /\ \A u \in UnitSet(units') :
             /\ u.id < nextUnitId'
             /\ u.id \notin UnitIds(units) => u.id >= nextUnitId
             /\ \A v \in UnitSet(units) :
                   v.id = u.id => v.playerId = u.playerId]_vars

C13_Witness ==
    /\ \E u \in UnitSet(units) :
          /\ u.id \notin UnitIds(prevUnits)
          /\ \E k \in 1 .. u.id - 1 :
                k \notin UnitIds(units) /\ k \notin UnitIds(prevUnits)
    /\ prevUnits # <<>>

\* C14 (as the specification states it): territory grows one ring per tick:
\* every tile conquered in the capture step of a tick had, when that capture
\* step began, a neighbour owned by the conquering player; a tile conquered
\* earlier in the same step enables no further conquest.
C14_OneRingPerTick ==
    AfterActiveTick =>
        \A e \in LogSet(captureLog) :
            \E n \in NeighborSet(e.tile) : prevOwner[n] = e.playerId

\* C15 (as the specification states it): every unit hit in the combat step
\* of a tick is in the unit list at that moment; a unit that updateConfig
\* trimmed between two ticks is never a target in the following tick.
C15_TargetsAreListed ==
    AfterActiveTick => \A e \in LogSet(combatLog) : e.targetLive

----------------------------------------------------------------------------
(* Properties of the steps of a tick *)

\* the units of player p that a tick created
NewUnits(p) ==
    {u \in UnitSet(postCombat) :
        u.playerId = p /\ u.id \notin UnitIds(prevUnits)}

\* timer, unit count and units of the building of p when updateSpawnTimers
\* begins: as the previous call left them, or as the tick has created them
TimerBefore(p) ==
    IF HasBuilding(prevBuildings, p)
    THEN prevBuildings[BuildingIndex(prevBuildings, p)].spawnTimer
    ELSE config.spawnInterval

CountBefore(p) ==
    IF HasBuilding(prevBuildings, p)
    THEN prevBuildings[BuildingIndex(prevBuildings, p)].unitCount
    ELSE config.startingUnits

InitialUnits(p) ==
    IF HasBuilding(prevBuildings, p) THEN 0 ELSE config.startingUnits

Elapsed(p) ==
    /\ TimerBefore(p) - op.dt <= 0
    /\ CountBefore(p) < config.maxUnitsPerPlayer

\* C17: in a tick every core building spawns at most one unit: one, with
\* the timer set back to spawnInterval, exactly when the timer less
\* deltaTime is <= 0 and unitCount is below maxUnitsPerPlayer; otherwise
\* none, and the timer keeps the value it was lowered to.
C17_OneSpawnPerTick ==
    AfterActiveTick =>
        \A i \in 1 .. Len(coreBuildings) :
            LET p == coreBuildings[i].playerId
            IN  IF Elapsed(p)
                THEN /\ Cardinality(NewUnits(p)) = InitialUnits(p) + 1
                     /\ coreBuildings[i].spawnTimer = config.spawnInterval
                ELSE /\ Cardinality(NewUnits(p)) = InitialUnits(p)
                     /\ coreBuildings[i].spawnTimer = TimerBefore(p) - op.dt

C17_Witness ==
    /\ AfterActiveTick
    /\ \E p \in Players :
          /\ HasBuilding(prevBuildings, p)
          /\ Elapsed(p)
          /\ TimerBefore(p) - op.dt < 0
          /\ Cardinality(NewUnits(p)) = 1

\* a tick that leaves the timer of a player at the cap below zero
C17_AtCap ==
    /\ AfterActiveTick
    /\ \E p \in Players :
          /\ HasBuilding(prevBuildings, p)
          /\ TimerBefore(p) - op.dt < 0
          /\ ~Elapsed(p)
          /\ coreBuildings[BuildingIndex(coreBuildings, p)].spawnTimer < 0

\* C18: the structure step of an active tick gives every player who owns a
\* tile and has no core building exactly one core building, at the first
\* tile of the player's enumeration, with spawnTimer = spawnInterval =
\* config.spawnInterval, and creates exactly config.startingUnits units for
\* that player; a player who owns no tile gets neither building nor units.
Structures ==
    CheckPlayers([units |-> prevUnits, coreBuildings |-> prevBuildings,
                  nextUnitId |-> 1, rnd |-> ZeroRnd],
                 config, prevOwner, 1)

NewStructureOk(m, p) ==
    /\ Cardinality(BuildingsOf(m.coreBuildings, p)) = 1
    /\ LET b == m.coreBuildings[BuildingIndex(m.coreBuildings, p)]
           c == coreBuildings[BuildingIndex(coreBuildings, p)]
       IN  /\ b.x = TileX(TilesOf(prevOwner, p)[1]) * Scale
           /\ b.y = TileY(TilesOf(prevOwner, p)[1]) * Scale
           /\ b.spawnTimer = config.spawnInterval
           /\ b.spawnInterval = config.spawnInterval
           /\ b.unitCount = config.startingUnits
           /\ c.x = b.x /\ c.y = b.y
    /\ GetUnitCount(m.units, p) = config.startingUnits
    /\ Cardinality(BuildingsOf(coreBuildings, p)) = 1
    /\ Cardinality(NewUnits(p)) =
          config.startingUnits + (IF Elapsed(p) THEN 1 ELSE 0)

C19_GridIsUnitList ==
    AfterActiveTick =>
        /\ Len(spatialGrid.entries) = Len(units)
        /\ \A i \in 1 .. Len(units) :
              /\ spatialGrid.entries[i].id = units[i].id
              /\ spatialGrid.entries[i].playerId = units[i].playerId
              /\ spatialGrid.entries[i].x = units[i].x
              /\ spatialGrid.entries[i].y = units[i].y
              /\ spatialGrid.entries[i].key
                    = GetKey(spatialGrid.cellSize, units[i].x, units[i].y)

C19_Witness ==
    /\ AfterActiveTick
    /\ \E u \in UnitSet(postCombat) :
          u.id \in UnitIds(prevUnits) /\ u.id \notin UnitIds(units)
    /\ \E u \in UnitSet(units) :
          /\ u.id \in UnitIds(prevUnits)
          /\ \/ u.x # prevUnits[IndexOfId(prevUnits, u.id)].x
             \/ u.y # prevUnits[IndexOfId(prevUnits, u.id)].y

\* C20: in the combat step a unit hits at most one unit; the unit hit has
\* another owner and is, among the enemies the grid returns to the attacker,
\* the first in iteration order of those nearest to it; the health a unit
\* loses in a tick is the sum of the hits of enemy units on it.
FirstNearest(a, cands, j) ==
    /\ \A i \in 1 .. Len(cands) :
          DistSq(cands[i].x, cands[i].y, a.x, a.y)
              >= DistSq(cands[j].x, cands[j].y, a.x, a.y)
    /\ \A i \in 1 .. j - 1 :
          DistSq(cands[i].x, cands[i].y, a.x, a.y)
              > DistSq(cands[j].x, cands[j].y, a.x, a.y)

HitsOn(log, id) ==
    {k \in 1 .. Len(log) : log[k].target = id /\ log[k].targetLive}

DamageOn(log, id) ==
    SeqSum([k \in 1 .. Len(log) |->
               IF k \in HitsOn(log, id) THEN log[k].damage ELSE 0])

C20_NearestEnemyHit ==
    [][(op'.name = "tick" /\ op'.n = op.n + 1 /\ ~inSpawnPhase) =>
          /\ \A k \in 1 .. Len(combatLog'), l \in 1 .. Len(combatLog') :
                combatLog'[k].attacker = combatLog'[l].attacker => k = l
          /\ \A k \in 1 .. Len(combatLog') :
                LET e == combatLog'[k]
                    a == postCombat'[IndexOfId(postCombat', e.attacker)]
                    cands == EnemiesOf(config, spatialGrid, postCombat', a)
                IN  /\ e.targetOwner # e.attackerOwner
                    /\ \E j \in 1 .. Len(cands) :
                          /\ cands[j].id = e.target
                          /\ FirstNearest(a, cands, j)
          /\ \A u \in UnitSet(postCombat') :
                u.id \in UnitIds(units) =>
                    HealthIn(units, u.id) - u.health
                        = DamageOn(combatLog', u.id)
          /\ \A a \in UnitSet(postCombat') :
                (\A k \in 1 .. Len(combatLog') :
                    combatLog'[k].attacker # a.id)
                => EnemiesOf(config, spatialGrid, postCombat', a) = <<>>]_vars

C20_Witness ==
    /\ AfterActiveTick
    /\ \E e \in LogSet(combatLog) :
          \E u \in UnitSet(postCombat), v \in UnitSet(postCombat) :
              /\ u.id = e.target
              /\ v.id # u.id
              /\ v.playerId = u.playerId
              /\ u.id \in UnitIds(prevUnits) /\ v.id \in UnitIds(prevUnits)
              /\ LET a == postCombat[IndexOfId(postCombat, e.attacker)]
                 IN  DistSq(v.x, v.y, a.x, a.y) = DistSq(u.x, u.y, a.x, a.y)

----------------------------------------------------------------------------
(* Properties of combat range and damage *)

\* C21 (as the specification states it): every attack that lowers the
\* health of a unit of the unit list is made by an attacker whose distance
\* to that unit, at the moment of the attack, is at most combatRange.
\* updateCombat takes the nearest hostile object getNearby returns and
\* never compares its distance with combatRange.
C21_AttackWithinRange ==
    AfterActiveTick =>
        \A e \in LogSet(combatLog) :
            e.targetLive =>
                e.distSq <= config.combatRange * config.combatRange

\* the health a unit has when the combat step of the tick begins
HealthBefore(id) ==
    IF id \in UnitIds(prevUnits) THEN HealthIn(prevUnits, id)
    ELSE config.unitHealth

\* C22: a unit of the unit list that k units hit in the combat step of a
\* tick loses exactly k * unitDPS * deltaTime of health in that tick: the
\* number of attackers is not limited, the damage of a tick is not capped,
\* and a hit on a unit whose health is already <= 0 still counts.
C22_DamageAddsUp ==
    AfterActiveTick =>
        \A u \in UnitSet(postCombat) :
            HealthBefore(u.id) - u.health =
                Cardinality(HitsOn(combatLog, u.id)) * config.unitDPS * op.dt

C22_Witness ==
    /\ AfterActiveTick
    /\ \E u \in UnitSet(postCombat) :
          /\ Cardinality(HitsOn(combatLog, u.id)) >= 2
          /\ HealthBefore(u.id) > 0
          /\ u.health + config.unitDPS * op.dt <= 0

----------------------------------------------------------------------------
(* Properties of cap enforcement *)

\* the place of unit i of a list among the units of its player
RankIn(us, i) ==
    Cardinality({j \in 1 .. i : us[j].playerId = us[i].playerId})

UnitsOf(us, p) == SelectSeq(us, LAMBDA u : u.playerId = p)

\* C23: updateConfig with maxUnitsPerPlayer = c keeps, of every player, the
\* first c units in list order and removes every later one: the units kept
\* are unchanged and in the order they had, the units removed of a player
\* have higher ids than the units kept of that player, and a player with at
\* most c units keeps all of them.
C23_KeepsEarliest ==
    (AfterUpdateConfig /\ op.ov.maxUnitsPerPlayer # Undefined) =>
        /\ \A i \in 1 .. Len(prevUnits) :
              (prevUnits[i] \in UnitSet(units))
                  <=> RankIn(prevUnits, i) <= op.ov.maxUnitsPerPlayer
        /\ UnitSet(units) \subseteq UnitSet(prevUnits)
        /\ Cardinality(UnitIds(units)) = Len(units)
        /\ \A i \in 1 .. Len(units), j \in 1 .. Len(units) :
              i < j => IndexOfId(prevUnits, units[i].id)
                          < IndexOfId(prevUnits, units[j].id)
        /\ \A u \in UnitSet(units), v \in UnitSet(prevUnits) :
              (v.playerId = u.playerId /\ v.id \notin UnitIds(units))
                  => u.id < v.id
        /\ \A p \in Players :
              GetUnitCount(prevUnits, p) <= op.ov.maxUnitsPerPlayer
                  => UnitsOf(units, p) = UnitsOf(prevUnits, p)

C23_Witness ==
    /\ AfterUpdateConfig
    /\ op.ov.maxUnitsPerPlayer # Undefined
    /\ \E p \in Players, q \in Players :
          /\ GetUnitCount(prevUnits, p) > op.ov.maxUnitsPerPlayer
          /\ GetUnitCount(units, p) = op.ov.maxUnitsPerPlayer
          /\ GetUnitCount(prevUnits, q) > 0
          /\ GetUnitCount(prevUnits, q) <= op.ov.maxUnitsPerPlayer
          /\ UnitsOf(units, q) = UnitsOf(prevUnits, q)
    /\ Len(units) >= 2

----------------------------------------------------------------------------
(* Properties of movement *)

\* C24 (as the specification states it): after an active tick every unit
\* that was in the list when the tick began, and whose owner held territory,
\* stores in (targetX, targetY) the movement target updateUnits computed for
\* it in that tick.  updateUnits keeps the target in the local targetPos and
\* never writes unit.targetX or unit.targetY, which stay at the position of
\* the core building given by spawnUnit.
C24_TargetStored ==
    AfterActiveTick =>
        \A u \in UnitSet(units) :
            (u.id \in UnitIds(prevUnits)
             /\ Len(TilesOf(prevOwner, u.playerId)) > 0)
            => /\ u.targetX =
                    TargetPos(config, prevOwner,
                              prevUnits[IndexOfId(prevUnits, u.id)]).x
               /\ u.targetY =
                    TargetPos(config, prevOwner,
                              prevUnits[IndexOfId(prevUnits, u.id)]).y

\* C25 (as the specification states it): after every active tick every
\* unit of the list has 0 <= x <= width and 0 <= y <= height.  spawnUnit
\* adds the random offset to the position of the core building without any
\* clamp, and updateUnits clamps only a unit it moves: a unit it skips (the
\* owner holds no tile) or finds within stopDistance of its target keeps
\* the position it was created with.
InsideMap(u) == u.x >= 0 /\ u.x <= MapW /\ u.y >= 0 /\ u.y <= MapH

C25_UnitsInsideMap ==
    AfterActiveTick => \A u \in UnitSet(units) : InsideMap(u)

----------------------------------------------------------------------------
(* Properties of the capture step: what it leaves alone *)

\* Chebyshev distance between a tile and the tile a unit stands on
Cheb(u, t) ==
    Max(Abs(TileX(t) - (u.x \div Scale)), Abs(TileY(t) - (u.y \div Scale)))

NearUnitOf(p, t) ==
    \E u \in UnitSet(postCombat) :
        /\ u.playerId = p
        /\ Cheb(u, t) <= Max(1, config.captureRadius \div Scale)

\* C26: the capture step of a tick changes the owner of no water tile and
\* of no coordinate outside the map, and of no tile farther than
\* max(1, floor(captureRadius)) in Chebyshev distance from the tile of every
\* unit of the list; a tile that changes owner goes to the owner of a unit
\* within that distance.
C26_CaptureFrame ==
    AfterActiveTick =>
        /\ DOMAIN owner = Tiles
        /\ \A t \in Tiles :
              owner[t] # prevOwner[t] =>
                  t \notin WaterTiles /\ NearUnitOf(owner[t], t)
        /\ \A e \in LogSet(captureLog) :
              /\ e.tile \in Tiles \ WaterTiles
              /\ \E u \in UnitSet(postCombat) :
                    /\ u.id = e.unit /\ u.playerId = e.playerId
                    /\ Cheb(u, e.tile)
                          <= Max(1, config.captureRadius \div Scale)

C26_Witness ==
    /\ AfterActiveTick
    /\ captureLog # <<>>
    /\ \E u \in UnitSet(postCombat) : \E w \in WaterTiles :
          /\ Cheb(u, w) <= Max(1, config.captureRadius \div Scale)
          /\ \E n \in NeighborSet(w) : prevOwner[n] = u.playerId
          /\ owner[w] = NoOwner
    /\ \E u \in UnitSet(postCombat) :
          \/ (u.x \div Scale) - 1 < 0 \/ (u.x \div Scale) + 1 >= MapWidth
          \/ (u.y \div Scale) - 1 < 0 \/ (u.y \div Scale) + 1 >= MapHeight
    /\ \E t \in Tiles \ WaterTiles :
          /\ owner[t] = NoOwner
          /\ \E n \in NeighborSet(t) : prevOwner[n] \in Players
          /\ \A p \in Players : ~NearUnitOf(p, t)

----------------------------------------------------------------------------
(* Properties of the movement fallbacks *)

\* (width / 2, height / 2)
CentreOfMap ==
    [x |-> (MapWidth * Scale) \div 2, y |-> (MapHeight * Scale) \div 2]

\* the owner of unit u holds tiles, and none of them has a neighbour that
\* is neither the owner's nor water
NoFrontier(own, u) ==
    /\ Len(TilesOf(own, u.playerId)) > 0
    /\ \A t \in Tiles : own[t] = u.playerId =>
          \A n \in NeighborSet(t) : own[n] = u.playerId \/ n \in WaterTiles

\* the unit list while updateUnits handles unit i: the units before i have
\* moved, the others have not
ListAt(before, after, i) ==
    [j \in 1 .. Len(before) |-> IF j < i THEN after[j] ELSE before[j]]

Kinematics(u) == <<u.x, u.y, u.vx, u.vy>>

C27_AtCentroid ==
    /\ AfterActiveTick
    /\ \E u \in UnitSet(prevUnits) :
          /\ Len(TilesOf(prevOwner, u.playerId)) > 0
          /\ ~NoFrontier(prevOwner, u)
          /\ u.x = Centroid(TilesOf(prevOwner, u.playerId)).x
          /\ u.y = Centroid(TilesOf(prevOwner, u.playerId)).y

----------------------------------------------------------------------------
(* Determinism *)

\* what two runs of the engine are compared on
Outcome(res) == <<res.units, res.coreBuildings, res.owner>>

\* C28 (as the specification states it): the result of a tick is a function
\* of the state the tick starts from and of deltaTime: a second run of the
\* same tick from the same state leaves the same units (ids, owners,
\* positions, health), the same core buildings and the same tile ownership,
\* whatever Math.random() returns in it.  spawnUnit places every new unit at
\* an offset drawn from Math.random().
C28_Deterministic ==
    [][(op'.name = "tick" /\ op'.n = op.n + 1 /\ ~inSpawnPhase) =>
          \A rnd \in [1 .. (nextUnitId' - nextUnitId) -> JitterPairs] :
              Outcome(TickOp(Manager(rnd), config, owner, spatialGrid,
                             op'.dt, inSpawnPhase))
                  = <<units', coreBuildings', owner'>>]_vars

----------------------------------------------------------------------------
(* A player without territory *)

\* C30: a player who owns no tile when a call begins owns no tile when it
\* ends: the capture step of a tick conquers nothing for that player, however
\* many units of the player are in the list and wherever they stand.
C30_NoTileNoCapture ==
    \A p \in Players :
        Len(TilesOf(prevOwner, p)) = 0 =>
            /\ Len(TilesOf(owner, p)) = 0
            /\ \A e \in LogSet(captureLog) : e.playerId # p

C30_Witness ==
    /\ AfterActiveTick
    /\ \E u \in UnitSet(postCombat) :
          /\ Len(TilesOf(prevOwner, u.playerId)) = 0
          /\ HasBuilding(prevBuildings, u.playerId)
          /\ u.health > 0
          /\ \E t \in Tiles \ WaterTiles :
                /\ Cheb(u, t) <= Max(1, config.captureRadius \div Scale)
                /\ prevOwner[t] = NoOwner
                /\ owner[t] = NoOwner

----------------------------------------------------------------------------
(* Repeated ticks: the game loop calls tick on every game tick, for ever *)

\* configurations under which no unit dies, so that unit ids last
LiveConfigs ==
    {[BaseConfig EXCEPT !.unitDPS = 0, !.spawnInterval = i] : i \in {2, 3}}

LiveInit ==
    /\ units = <<>>
    /\ coreBuildings = <<>>
    /\ spatialGrid = EmptyGrid(CELL_SIZE)
    /\ nextUnitId = 1
    /\ config \in LiveConfigs
    /\ owner \in InitOwners
    /\ inSpawnPhase = TRUE
    /\ op = OpRec("new", NoOwner, 0, NoOverrides, 0)
    /\ prevUnits = <<>>
    /\ prevBuildings = <<>>
    /\ prevOwner = owner
    /\ postCombat = <<>>
    /\ combatLog = <<>>
    /\ captureLog = <<>>

\* tick(deltaTime), outside the budget of calls
LiveTick(dt) == TickStep(dt, op.n)

TickAny == \E dt \in DeltaTimes : LiveTick(dt)

LiveNext ==
    \/ EndSpawnPhase
    \/ TickAny

\* tick(dt) can be called: the ids and the timer range of the model suffice
TickFits(dt) ==
    LET res == TickOp(Manager(ZeroRnd), config, owner, spatialGrid, dt,
                      inSpawnPhase)
    IN  /\ res.nextUnitId <= MaxUnitId + 1
        /\ TimersAbove(res.coreBuildings, 0 - TimerFloor)

\* the enabling condition of TickAny
CanTick == \E dt \in DeltaTimes : TickFits(dt)

\* Weak fairness of tick, WF_vars(TickAny), with ENABLED <<TickAny>>_vars
\* written as the state predicate CanTick: the game loop does not stop
\* calling tick while tick can be called.
TickFairness == []<>(~CanTick) \/ []<><<TickAny>>_vars

LiveSpec == LiveInit /\ [][LiveNext]_vars /\ TickFairness

\* player p has a core building and fewer units than the cap, outside the
\* spawn phase
BelowCap(p) ==
    /\ ~inSpawnPhase
    /\ HasBuilding(coreBuildings, p)
    /\ GetUnitCount(units, p) < config.maxUnitsPerPlayer

\* the last call was a tick in which the core building of p spawned a unit
SpawnedByTimer(p) ==
    /\ AfterActiveTick
    /\ HasBuilding(prevBuildings, p)
    /\ NewUnits(p) # {}

\* the delta time accumulated since the timer of building b was last set to
\* spawnInterval
Accumulated(b) == b.spawnInterval - b.spawnTimer

\* C29: under repeated ticks outside the spawn phase, a player with a core
\* building and fewer units than maxUnitsPerPlayer eventually gets a unit
\* from that building, and gets it in the first tick in which the delta
\* time accumulated since the last timer reset reaches spawnInterval: not
\* in an earlier tick, and not later.
C29_SpawnsInTime ==
    /\ \A p \in Players : BelowCap(p) ~> SpawnedByTimer(p)
    /\ [][\A p \in Players :
            (op'.name = "tick" /\ BelowCap(p)) =>
                ((\E u \in UnitSet(units') :
                     u.playerId = p /\ u.id \notin UnitIds(units))
                 <=> Accumulated(
                         coreBuildings[BuildingIndex(coreBuildings, p)])
                     + op'.dt
                       >= coreBuildings[BuildingIndex(coreBuildings, p)]
                              .spawnInterval)]_vars

C29_Witness ==
    /\ AfterActiveTick
    /\ \E p \in Players :
          /\ HasBuilding(prevBuildings, p)
          /\ GetUnitCount(prevUnits, p) < config.maxUnitsPerPlayer
          /\ Accumulated(prevBuildings[BuildingIndex(prevBuildings, p)]) > 0
          /\ Accumulated(prevBuildings[BuildingIndex(prevBuildings, p)])
                + op.dt > config.spawnInterval
          /\ NewUnits(p) # {}
          /\ coreBuildings[BuildingIndex(coreBuildings, p)].spawnTimer
                = config.spawnInterval

====
